---- MODULE Spec2Model ----
(***************************************************************************)
(* Model of the Character service of the kanka client (character.go):      *)
(* the SimpleCharacter payload and its validating serializer, and the five *)
(* CharacterService methods Index/Get/Create/Update/Delete running over an *)
(* HTTP client that is a black box.                                        *)
(*                                                                         *)
(* Go values are modelled as follows.                                      *)
(*   string (payload field)  sequence of one-character strings             *)
(*   endpoint                TLA+ string                                   *)
(*   []T                     [isNil, elems]  (a nil slice is not an empty  *)
(*                           slice)                                        *)
(*   *T, error, []byte       <<>> for nil, <<v>> otherwise                 *)
(*   error value             [msg, camp, char, name, cause]: the constant  *)
(*                           text of the format string, the values of its  *)
(*                           %d / %s verbs, and the error wrapped by %w    *)
(***************************************************************************)
EXTENDS Integers, Sequences, FiniteSets, TLC

\* ---------------------------------------------------------------- bounds
MaxNeg == 1
MaxID == 2
MaxTime == 2
NumProcs == 2
MaxInvocations == 2
MaxLen == 1
MaxSet == 2

Procs == 1..NumProcs
IDs == (0 - MaxNeg)..MaxID
\* a *time.Time argument: nil or a pointer to a time (seconds)
Syncs == {<<>>} \cup {<<t>> : t \in 1..MaxTime}

\* ---------------------------------------------------------------- strings
\* "xFF" stands for a byte that is not valid UTF-8, "uFFFD" for the Unicode
\* replacement character U+FFFD.
Chars == {" ", "a", "xFF"}

IsSpace(c) == c \in {" ", "\t", "\n", "\r"}

\* blank.Is: the string is empty or consists of whitespace only
blank_Is(s) == \A i \in 1..Len(s) : IsSpace(s[i])

RECURSIVE Strs(_)
Strs(n) == IF n = 0 THEN {<<>>}
           ELSE LET s == Strs(n - 1)
                IN  s \cup {Append(x, c) : x \in s, c \in Chars}

Digits == <<"0", "1", "2", "3", "4", "5", "6", "7", "8", "9">>

\* strconv.Itoa
RECURSIVE Itoa(_)
Itoa(n) == IF n < 0 THEN "-" \o Itoa(0 - n)
           ELSE IF n < 10 THEN Digits[n + 1]
           ELSE Itoa(n \div 10) \o Digits[(n % 10) + 1]

\* the decimal text of an integer inside a JSON document, as characters
RECURSIVE FormatInt(_)
FormatInt(n) == IF n < 0 THEN <<"-">> \o FormatInt(0 - n)
                ELSE IF n < 10 THEN <<Digits[n + 1]>>
                ELSE Append(FormatInt(n \div 10), Digits[(n % 10) + 1])

DigitValue(c) == CHOOSE d \in 0..9 : Digits[d + 1] = c

\* the integer a decimal text denotes
RECURSIVE ParseInt(_)
ParseInt(s) == IF Len(s) = 0 THEN 0
               ELSE IF s[1] = "-" THEN 0 - ParseInt(Tail(s))
               ELSE 10 * ParseInt(SubSeq(s, 1, Len(s) - 1)) + DigitValue(s[Len(s)])

\* ---------------------------------------------------------------- errors
NoErr == <<>>

\* errors.New / fmt.Errorf without verbs
NewError(m) == [msg |-> m, camp |-> <<>>, char |-> <<>>, name |-> <<>>, cause |-> <<>>]

\* fmt.Errorf(m + ": %w", ..., err): camp, char and name hold the values the
\* format string prints (<<>> when it has no verb for them)
Errorf(m, camp, char, name, err) ==
    [msg |-> m, camp |-> camp, char |-> char, name |-> name, cause |-> <<err>>]

\* ---------------------------------------------------------------- SimpleCharacter
NilSlice == [isNil |-> TRUE, elems |-> <<>>]
Slice(s) == [isNil |-> FALSE, elems |-> s]

StringFields == {"Name", "Entry", "Title", "Age", "Sex", "Type", "Image", "ImageURL"}
IntFields == {"FamilyID", "LocationID", "RaceID"}
BoolFields == {"IsDead", "IsPrivate"}
IntSliceFields == {"Tags"}
StrSliceFields == {"PersonalityName", "PersonalityEntry", "AppearanceName", "AppearanceEntry"}
Fields == StringFields \cup IntFields \cup BoolFields \cup IntSliceFields \cup StrSliceFields

\* the zero value SimpleCharacter{}
SimpleCharacter ==
    [Name |-> <<>>, Entry |-> <<>>, Title |-> <<>>, Age |-> <<>>, Sex |-> <<>>,
     Type |-> <<>>, FamilyID |-> 0, LocationID |-> 0, RaceID |-> 0,
     Tags |-> NilSlice, IsDead |-> FALSE, IsPrivate |-> FALSE,
     Image |-> <<>>, ImageURL |-> <<>>,
     PersonalityName |-> NilSlice, PersonalityEntry |-> NilSlice,
     AppearanceName |-> NilSlice, AppearanceEntry |-> NilSlice]

JSONTag_typo ==
    [Name |-> "name", Entry |-> "entry", Title |-> "title", Age |-> "age",
     Sex |-> "sex", Type |-> "type", FamilyID |-> "family_id",
     LocationID |-> "location_id", RaceID |-> "race_id", Tags |-> "tags",
     IsDead |-> "is_dead", IsPrivate |-> "is_private", Image |-> "image",
     ImageURL |-> "image",
     PersonalityName |-> "personality_name", PersonalityEntry |-> "personality_entry",
     AppearanceName |-> "appearance_name", AppearanceEntry |-> "appearance_entry"]

\* the json key of each field's struct tag
JSONTag ==
    [Name |-> "name", Entry |-> "entry", Title |-> "title", Age |-> "age",
     Sex |-> "sex", Type |-> "type", FamilyID |-> "family_id",
     LocationID |-> "location_id", RaceID |-> "race_id", Tags |-> "tags",
     IsDead |-> "is_dead", IsPrivate |-> "is_private", Image |-> "image",
     ImageURL |-> "image_url",
     PersonalityName |-> "personality_name", PersonalityEntry |-> "personality_entry",
     AppearanceName |-> "appearance_name", AppearanceEntry |-> "appearance_entry"]

\* the fields whose struct tag carries ,omitempty
OmitEmpty == Fields \ {"Name"}

\* encoding/json's "empty value": false, 0, a zero-length string or slice
IsEmptyValue(f, v) ==
    IF f \in StringFields THEN v = <<>>
    ELSE IF f \in IntFields THEN v = 0
    ELSE IF f \in BoolFields THEN v = FALSE
    ELSE Len(v.elems) = 0

\* a JSON string: bytes that are not valid UTF-8 are written as U+FFFD
EncodeString(s) == [i \in 1..Len(s) |-> IF s[i] = "xFF" THEN "uFFFD" ELSE s[i]]

\* the JSON value of field f holding v (a nil slice is written as null)
EncodeValue(f, v) ==
    IF f \in StringFields THEN EncodeString(v)
    ELSE IF f \in IntFields THEN FormatInt(v)
    ELSE IF f \in BoolFields THEN (IF v THEN "true" ELSE "false")
    ELSE IF f \in IntSliceFields
    THEN [null |-> v.isNil, array |-> [i \in 1..Len(v.elems) |-> FormatInt(v.elems[i])]]
    ELSE [null |-> v.isNil, array |-> [i \in 1..Len(v.elems) |-> EncodeString(v.elems[i])]]

\* the Go value a JSON value decodes to (an array gives a non-nil slice)
DecodeValue(f, j) ==
    IF f \in StringFields THEN j
    ELSE IF f \in IntFields THEN ParseInt(j)
    ELSE IF f \in BoolFields THEN j = "true"
    ELSE IF j.null THEN NilSlice
    ELSE IF f \in IntSliceFields THEN Slice([i \in 1..Len(j.array) |-> ParseInt(j.array[i])])
    ELSE Slice(j.array)

\* json.Marshal(alias(sc)): the JSON object, as a function from keys to values
EncodeStruct(sc) ==
    LET present == {f \in Fields : ~(f \in OmitEmpty /\ IsEmptyValue(f, sc[f]))}
        keys == {JSONTag[f] : f \in present}
    IN  [k \in keys |-> LET f == CHOOSE g \in present : JSONTag[g] = k
                        IN  EncodeValue(f, sc[f])]

\* json.Unmarshal(b, &out) with out a zero SimpleCharacter
Unmarshal(obj) ==
    [f \in Fields |-> IF JSONTag[f] \in DOMAIN obj
                      THEN DecodeValue(f, obj[JSONTag[f]])
                      ELSE SimpleCharacter[f]]

ErrMissingName == NewError("cannot marshal SimpleCharacter into JSON with a missing Name")

MarshalJSON_nocheck(sc) == [b |-> <<EncodeStruct(sc)>>, err |-> NoErr]

\* func (sc SimpleCharacter) MarshalJSON() ([]byte, error)
MarshalJSON(sc) ==
    IF blank_Is(sc.Name)
    THEN [b |-> <<>>, err |-> <<ErrMissingName>>]
    ELSE [b |-> <<EncodeStruct(sc)>>, err |-> NoErr]

\* json.Marshal(ch): calls ch.MarshalJSON and wraps its error in a
\* *json.MarshalerError
json_Marshal(ch) ==
    LET r == MarshalJSON(ch)
    IN  IF r.err # NoErr
        THEN [b |-> <<>>,
              err |-> <<Errorf("json: error calling MarshalJSON for type kanka.SimpleCharacter",
                               <<>>, <<>>, <<>>, r.err[1])>>]
        ELSE r

\* ---------------------------------------------------------------- endpoint
ErrInvalidID == NewError("invalid ID")

\* endpoint.id: the endpoint with the ID appended as a path segment; an
\* ID <= 0 is an error
id(e, n) ==
    IF n <= 0 THEN [end |-> "", err |-> <<ErrInvalidID>>]
    ELSE [end |-> e \o "/" \o Itoa(n), err |-> NoErr]

\* endpoint.concat: the endpoint with a sub-path appended
concat(e, sub) == e \o "/" \o sub

\* endpoint.sync: the endpoint with the sync-since query parameter appended
sync(e, t) == e \o "?since=" \o Itoa(t)

\* ---------------------------------------------------------------- state
VARIABLES
    EndpointCampaign,   \* the package-level base endpoint
    cs_end,             \* CharacterService.end
    pc,                 \* per caller: "idle", "sent" (blocked in the client), "done"
    args,               \* per caller: the method and arguments of its invocation
    calls,              \* per caller: the client calls of its invocation, in order
    result,             \* per caller: the values its invocation returned
    started,            \* the number of invocations begun so far
    sc,                 \* the SimpleCharacter under serialization
    enc,                \* what MarshalJSON returned for sc
    dec,                \* what decoding enc gave
    jpc                 \* "start", "encoded", "decoded"

vars == <<EndpointCampaign, cs_end, pc, args, calls, result, started, sc, enc, dec, jpc>>
svcVars == <<EndpointCampaign, cs_end, pc, args, calls, result, started>>
jsonVars == <<sc, enc, dec, jpc>>

\* ---------------------------------------------------------------- client
\* what a client call can answer: decoded data, or a transport error
TransportErrs == {NewError("404 Not Found"), NewError("connection refused")}
Datas == {<<>>, <<7>>}
Responses == {[data |-> d, err |-> NoErr] : d \in Datas}
             \cup {[data |-> <<>>, err |-> <<e>>] : e \in TransportErrs}

\* ---------------------------------------------------------------- service
\* What a method does up to its next blocking point: it returns (data, err),
\* or it calls the client with (verb, end, body).  svcEnd is the value of
\* cs.end when it gets there.
Return(data, err) ==
    [kind |-> "return", data |-> data, err |-> err, verb |-> "", end |-> "",
     body |-> <<>>, svcEnd |-> cs_end]

ClientCall(verb, end, body) ==
    [kind |-> "call", data |-> <<>>, err |-> NoErr, verb |-> verb, end |-> end,
     body |-> body, svcEnd |-> cs_end]

Index_nosync(campID, syncT) ==
    LET r == id(EndpointCampaign, campID)
    IN  IF r.err # NoErr
        THEN Return(<<>>, <<Errorf("invalid Campaign ID", <<>>, <<>>, <<>>, r.err[1])>>)
        ELSE ClientCall("GET", concat(r.end, cs_end), <<>>)

\* Index, lines 93-107
Index(campID, syncT) ==
    LET r == id(EndpointCampaign, campID)
    IN  IF r.err # NoErr
        THEN Return(<<>>, <<Errorf("invalid Campaign ID", <<>>, <<>>, <<>>, r.err[1])>>)
        ELSE LET end1 == concat(r.end, cs_end)
                 end2 == IF syncT # <<>> THEN sync(end1, syncT[1]) ELSE end1
             IN  ClientCall("GET", end2, <<>>)

\* Index, lines 108-112
IndexDone(campID, syncT, resp) ==
    IF resp.err # NoErr
    THEN Return(<<>>, <<Errorf("cannot get Character Index from Campaign",
                               <<campID>>, <<>>, <<>>, resp.err[1])>>)
    ELSE Return(resp.data, NoErr)

Get_swapped(campID, charID) ==
    LET r == id(EndpointCampaign, charID)
    IN  IF r.err # NoErr
        THEN Return(<<>>, <<Errorf("invalid Campaign ID", <<>>, <<>>, <<>>, r.err[1])>>)
        ELSE LET r2 == id(concat(r.end, cs_end), campID)
             IN  IF r2.err # NoErr
                 THEN Return(<<>>, <<Errorf("invalid Character ID", <<>>, <<>>, <<>>, r2.err[1])>>)
                 ELSE ClientCall("GET", r2.end, <<>>)

\* Get, lines 118-133
Get(campID, charID) ==
    LET r == id(EndpointCampaign, campID)
    IN  IF r.err # NoErr
        THEN Return(<<>>, <<Errorf("invalid Campaign ID", <<>>, <<>>, <<>>, r.err[1])>>)
        ELSE LET r2 == id(concat(r.end, cs_end), charID)
             IN  IF r2.err # NoErr
                 THEN Return(<<>>, <<Errorf("invalid Character ID", <<>>, <<>>, <<>>, r2.err[1])>>)
                 ELSE ClientCall("GET", r2.end, <<>>)

GetDone_flat(campID, charID, resp) ==
    IF resp.err # NoErr
    THEN Return(<<>>, <<[msg |-> "cannot get Character from Campaign", camp |-> <<campID>>,
                         char |-> <<charID>>, name |-> <<>>, cause |-> <<>>]>>)
    ELSE Return(resp.data, NoErr)

\* Get, lines 134-138
GetDone(campID, charID, resp) ==
    IF resp.err # NoErr
    THEN Return(<<>>, <<Errorf("cannot get Character from Campaign",
                               <<campID>>, <<charID>>, <<>>, resp.err[1])>>)
    ELSE Return(resp.data, NoErr)

Create_storesEnd(campID, ch) ==
    LET r == id(EndpointCampaign, campID)
    IN  IF r.err # NoErr
        THEN Return(<<>>, <<Errorf("invalid Campaign ID", <<>>, <<>>, <<>>, r.err[1])>>)
        ELSE LET end == concat(r.end, cs_end)
                 m == json_Marshal(ch)
             IN  IF m.err # NoErr
                 THEN [Return(<<>>, <<Errorf("cannot marshal SimpleCharacter",
                                             <<>>, <<>>, <<ch.Name>>, m.err[1])>>)
                       EXCEPT !.svcEnd = end]
                 ELSE [ClientCall("POST", end, m.b) EXCEPT !.svcEnd = end]

Create_ignoreMarshalErr(campID, ch) ==
    LET r == id(EndpointCampaign, campID)
    IN  IF r.err # NoErr
        THEN Return(<<>>, <<Errorf("invalid Campaign ID", <<>>, <<>>, <<>>, r.err[1])>>)
        ELSE ClientCall("POST", concat(r.end, cs_end), json_Marshal(ch).b)

\* Create, lines 145-160
Create(campID, ch) ==
    LET r == id(EndpointCampaign, campID)
    IN  IF r.err # NoErr
        THEN Return(<<>>, <<Errorf("invalid Campaign ID", <<>>, <<>>, <<>>, r.err[1])>>)
        ELSE LET end == concat(r.end, cs_end)
                 m == json_Marshal(ch)
             IN  IF m.err # NoErr
                 THEN Return(<<>>, <<Errorf("cannot marshal SimpleCharacter",
                                            <<>>, <<>>, <<ch.Name>>, m.err[1])>>)
                 ELSE ClientCall("POST", end, m.b)

\* Create, lines 161-165
CreateDone(campID, ch, resp) ==
    IF resp.err # NoErr
    THEN Return(<<>>, <<Errorf("cannot create Character for Campaign",
                               <<campID>>, <<>>, <<ch.Name>>, resp.err[1])>>)
    ELSE Return(resp.data, NoErr)

Update_marshalFirst(campID, charID, ch) ==
    LET r == id(EndpointCampaign, campID)
        m == json_Marshal(ch)
    IN  IF r.err # NoErr
        THEN Return(<<>>, <<Errorf("invalid Campaign ID", <<>>, <<>>, <<>>, r.err[1])>>)
        ELSE IF m.err # NoErr
        THEN Return(<<>>, <<Errorf("cannot marshal SimpleCharacter",
                                   <<>>, <<>>, <<ch.Name>>, m.err[1])>>)
        ELSE LET r2 == id(concat(r.end, cs_end), charID)
             IN  IF r2.err # NoErr
                 THEN Return(<<>>, <<Errorf("invalid Character ID", <<>>, <<>>, <<>>, r2.err[1])>>)
                 ELSE ClientCall("PUT", r2.end, m.b)

\* Update, lines 172-192
Update(campID, charID, ch) ==
    LET r == id(EndpointCampaign, campID)
    IN  IF r.err # NoErr
        THEN Return(<<>>, <<Errorf("invalid Campaign ID", <<>>, <<>>, <<>>, r.err[1])>>)
        ELSE LET r2 == id(concat(r.end, cs_end), charID)
             IN  IF r2.err # NoErr
                 THEN Return(<<>>, <<Errorf("invalid Character ID", <<>>, <<>>, <<>>, r2.err[1])>>)
                 ELSE LET m == json_Marshal(ch)
                      IN  IF m.err # NoErr
                          THEN Return(<<>>, <<Errorf("cannot marshal SimpleCharacter",
                                                     <<>>, <<>>, <<ch.Name>>, m.err[1])>>)
                          ELSE ClientCall("PUT", r2.end, m.b)

UpdateDone_retry(campID, charID, ch, resp) ==
    IF resp.err # NoErr
    THEN ClientCall("PUT", id(concat(id(EndpointCampaign, campID).end, cs_end), charID).end,
                    json_Marshal(ch).b)
    ELSE Return(resp.data, NoErr)

\* Update, lines 193-197
UpdateDone(campID, charID, ch, resp) ==
    IF resp.err # NoErr
    THEN Return(<<>>, <<Errorf("cannot update Character for Campaign",
                               <<campID>>, <<>>, <<ch.Name>>, resp.err[1])>>)
    ELSE Return(resp.data, NoErr)

Delete_skipCharCheck(campID, charID) ==
    LET r == id(EndpointCampaign, campID)
    IN  IF r.err # NoErr
        THEN Return(<<>>, <<Errorf("invalid Campaign ID", <<>>, <<>>, <<>>, r.err[1])>>)
        ELSE ClientCall("DELETE", id(concat(r.end, cs_end), charID).end, <<>>)

\* Delete, lines 203-214
Delete(campID, charID) ==
    LET r == id(EndpointCampaign, campID)
    IN  IF r.err # NoErr
        THEN Return(<<>>, <<Errorf("invalid Campaign ID", <<>>, <<>>, <<>>, r.err[1])>>)
        ELSE LET r2 == id(concat(r.end, cs_end), charID)
             IN  IF r2.err # NoErr
                 THEN Return(<<>>, <<Errorf("invalid Character ID", <<>>, <<>>, <<>>, r2.err[1])>>)
                 ELSE ClientCall("DELETE", r2.end, <<>>)

\* Delete, lines 215-219
DeleteDone(campID, charID, resp) ==
    IF resp.err # NoErr
    THEN Return(<<>>, <<Errorf("cannot delete Character for Campaign",
                               <<campID>>, <<charID>>, <<>>, resp.err[1])>>)
    ELSE Return(<<>>, NoErr)

\* ---------------------------------------------------------------- inputs
Names == Strs(MaxLen)

\* the non-zero values an optional field is given
NonZero(f) ==
    CASE f = "Entry" -> {<<"a">>, <<"xFF">>}
      [] f \in StringFields \ {"Entry"} -> {<<"a">>}
      [] f = "FamilyID" -> {-1, 12}
      [] f \in IntFields \ {"FamilyID"} -> {1}
      [] f \in BoolFields -> {TRUE}
      [] f = "Tags" -> {Slice(<<>>), Slice(<<3, 10>>)}
      [] f = "PersonalityName" -> {Slice(<<>>), Slice(<< <<"a">>, <<"xFF">> >>)}
      [] OTHER -> {Slice(<<>>), Slice(<< <<"a">> >>)}

\* the values got from those of ps by giving one optional field a value
SetOne(ps) ==
    ps \cup UNION {{[p EXCEPT ![f] = v] : v \in NonZero(f)} : p \in ps, f \in OmitEmpty}

\* the SimpleCharacter values without a Name and with at most n optional
\* fields set
RECURSIVE Build(_)
Build(n) == IF n = 0 THEN {SimpleCharacter} ELSE SetOne(Build(n - 1))

Payloads == {[p EXCEPT !.Name = nm] : p \in Build(MaxSet), nm \in Names}

\* the payloads the single caller passes: every Name, alone and with each
\* optional field
SvcPayloads == {[p EXCEPT !.Name = nm] : p \in Build(1), nm \in Names}

\* the arguments and answers of the callers that run in parallel
ConcIDs == {1, 2}
ConcSyncs == {<<>>, <<1>>}
ConcPayloads == {SimpleCharacter, [SimpleCharacter EXCEPT !.Name = <<"a">>, !.IsDead = TRUE]}
ConcResponses == {[data |-> <<7>>, err |-> NoErr],
                  [data |-> <<>>, err |-> <<NewError("404 Not Found")>>]}

NoArgs == [method |-> "", campID |-> 0, charID |-> 0, ch |-> SimpleCharacter, syncT |-> <<>>]
NoResult == [data |-> <<>>, err |-> NoErr]

\* ---------------------------------------------------------------- actions
\* caller p is free to invoke a method
CanEnter(p) == pc[p] = "idle" /\ started < MaxInvocations

\* the caller's method runs up to its return or its client call
Enter(p, a, o) ==
    /\ started' = started + 1
    /\ args' = [args EXCEPT ![p] = a]
    /\ cs_end' = o.svcEnd
    /\ IF o.kind = "call"
       THEN /\ calls' = [calls EXCEPT ![p] = Append(@, [verb |-> o.verb, end |-> o.end, body |-> o.body])]
            /\ pc' = [pc EXCEPT ![p] = "sent"]
            /\ result' = result
       ELSE /\ result' = [result EXCEPT ![p] = [data |-> o.data, err |-> o.err]]
            /\ pc' = [pc EXCEPT ![p] = "done"]
            /\ calls' = calls
    /\ UNCHANGED <<EndpointCampaign, jsonVars>>

CallIndex(p, ids, syncs) ==
    /\ CanEnter(p)
    /\ \E campID \in ids, syncT \in syncs :
           Enter(p, [NoArgs EXCEPT !.method = "Index", !.campID = campID, !.syncT = syncT],
                 Index(campID, syncT))

CallGet(p, ids) ==
    /\ CanEnter(p)
    /\ \E campID \in ids, charID \in ids :
           Enter(p, [NoArgs EXCEPT !.method = "Get", !.campID = campID, !.charID = charID],
                 Get(campID, charID))

CallCreate(p, ids, payloads) ==
    /\ CanEnter(p)
    /\ \E campID \in ids, ch \in payloads :
           Enter(p, [NoArgs EXCEPT !.method = "Create", !.campID = campID, !.ch = ch],
                 Create(campID, ch))

CallUpdate(p, ids, payloads) ==
    /\ CanEnter(p)
    /\ \E campID \in ids, charID \in ids, ch \in payloads :
           Enter(p, [NoArgs EXCEPT !.method = "Update", !.campID = campID, !.charID = charID,
                                   !.ch = ch],
                 Update(campID, charID, ch))

CallDelete(p, ids) ==
    /\ CanEnter(p)
    /\ \E campID \in ids, charID \in ids :
           Enter(p, [NoArgs EXCEPT !.method = "Delete", !.campID = campID, !.charID = charID],
                 Delete(campID, charID))

\* the rest of the method, once the client call has answered resp
Done(a, resp) ==
    CASE a.method = "Index" -> IndexDone(a.campID, a.syncT, resp)
      [] a.method = "Get" -> GetDone(a.campID, a.charID, resp)
      [] a.method = "Create" -> CreateDone(a.campID, a.ch, resp)
      [] a.method = "Update" -> UpdateDone(a.campID, a.charID, a.ch, resp)
      [] a.method = "Delete" -> DeleteDone(a.campID, a.charID, resp)

\* the client call of caller p answers and its method runs on
ClientReturn(p, responses) ==
    /\ pc[p] = "sent"
    /\ \E resp \in responses :
         LET o == Done(args[p], resp)
         IN  /\ cs_end' = o.svcEnd
             /\ IF o.kind = "call"
                THEN /\ calls' = [calls EXCEPT ![p] = Append(@, [verb |-> o.verb, end |-> o.end, body |-> o.body])]
                     /\ UNCHANGED <<pc, result>>
                ELSE /\ result' = [result EXCEPT ![p] = [data |-> o.data, err |-> o.err]]
                     /\ pc' = [pc EXCEPT ![p] = "done"]
                     /\ calls' = calls
    /\ UNCHANGED <<EndpointCampaign, args, started, jsonVars>>

\* the caller takes the result; nothing of the invocation is kept
Finish(p) ==
    /\ pc[p] = "done"
    /\ pc' = [pc EXCEPT ![p] = "idle"]
    /\ args' = [args EXCEPT ![p] = NoArgs]
    /\ calls' = [calls EXCEPT ![p] = <<>>]
    /\ result' = [result EXCEPT ![p] = NoResult]
    /\ UNCHANGED <<EndpointCampaign, cs_end, started, jsonVars>>

InitService ==
    /\ EndpointCampaign = "/campaigns"
    /\ cs_end = "characters"
    /\ pc = [p \in Procs |-> "idle"]
    /\ args = [p \in Procs |-> NoArgs]
    /\ calls = [p \in Procs |-> <<>>]
    /\ result = [p \in Procs |-> NoResult]
    /\ started = 0

NoEnc == [b |-> <<>>, err |-> NoErr]

Init ==
    /\ InitService
    /\ sc = SimpleCharacter
    /\ enc = NoEnc
    /\ dec = SimpleCharacter
    /\ jpc = "start"

\* one caller, invocation after invocation, over all the arguments
Caller == 1

Next ==
    \/ CallIndex(Caller, IDs, Syncs)
    \/ CallGet(Caller, IDs)
    \/ CallCreate(Caller, IDs, SvcPayloads)
    \/ CallUpdate(Caller, IDs, SvcPayloads)
    \/ CallDelete(Caller, IDs)
    \/ ClientReturn(Caller, Responses)
    \/ Finish(Caller)

Spec == Init /\ [][Next]_vars

\* NumProcs callers on the same service, their invocations interleaved
NextConc ==
    \E p \in Procs :
        \/ CallIndex(p, ConcIDs, ConcSyncs)
        \/ CallGet(p, ConcIDs)
        \/ CallCreate(p, ConcIDs, ConcPayloads)
        \/ CallUpdate(p, ConcIDs, ConcPayloads)
        \/ CallDelete(p, ConcIDs)
        \/ ClientReturn(p, ConcResponses)
        \/ Finish(p)

SpecConc == Init /\ [][NextConc]_vars

\* ---------------------------------------------------------------- serialization
\* sc.MarshalJSON()
Marshal ==
    /\ jpc = "start"
    /\ enc' = MarshalJSON(sc)
    /\ jpc' = "encoded"
    /\ UNCHANGED <<sc, dec, svcVars>>

\* json.Unmarshal of the bytes MarshalJSON returned into a zero SimpleCharacter
Decode ==
    /\ jpc = "encoded"
    /\ enc.err = NoErr
    /\ dec' = Unmarshal(enc.b[1])
    /\ jpc' = "decoded"
    /\ UNCHANGED <<sc, enc, svcVars>>

InitJSON ==
    /\ InitService
    /\ sc \in Payloads
    /\ enc = NoEnc
    /\ dec = SimpleCharacter
    /\ jpc = "start"

NextJSON == Marshal \/ Decode

SpecJSON == InitJSON /\ [][NextJSON]_vars

\* ---------------------------------------------------------------- properties
TakesChar(m) == m \in {"Get", "Update", "Delete"}
TakesPayload(m) == m \in {"Create", "Update"}

RECURSIVE RootCause(_)
RootCause(e) == IF e.cause = <<>> THEN e ELSE RootCause(e.cause[1])

\* the error, or one in its chain, prints value v for field k
RECURSIVE Identifies(_, _, _)
Identifies(e, k, v) ==
    \/ e[k] = <<v>>
    \/ e.cause # <<>> /\ Identifies(e.cause[1], k, v)

IDsValid(a) == a.campID > 0 /\ (TakesChar(a.method) => a.charID > 0)
AllValid(a) == IDsValid(a) /\ (TakesPayload(a.method) => ~blank_Is(a.ch.Name))

CollectionPath(a) == "/campaigns/" \o Itoa(a.campID) \o "/characters"
ResourcePath(a) == CollectionPath(a) \o "/" \o Itoa(a.charID)

\* C1: an invocation of any method with a campaign ID <= 0, or with a
\* character ID <= 0 where the method takes one, has returned a validation
\* error (no data, the invalid-ID error at the root of the chain) and has
\* made no call on the HTTP client.
C1_InvalidIDNoCall ==
    \A p \in Procs :
        (pc[p] # "idle" /\ ~IDsValid(args[p])) =>
            /\ pc[p] = "done"
            /\ calls[p] = <<>>
            /\ result[p].data = <<>>
            /\ result[p].err # NoErr
            /\ RootCause(result[p].err[1]) = ErrInvalidID

\* Get(campID = 2, charID = 0) has returned its error
C1_Witness ==
    \E p \in Procs :
        /\ pc[p] = "done"
        /\ args[p].method = "Get" /\ args[p].campID = 2 /\ args[p].charID = 0
        /\ result[p].err # NoErr
        /\ calls[p] = <<>>

\* C2: Create and Update with valid IDs and a blank Name have returned the
\* marshal error, whatever the other payload fields, without a POST or PUT.
C2_BlankNameNoCall ==
    \A p \in Procs :
        (/\ pc[p] # "idle"
         /\ TakesPayload(args[p].method)
         /\ IDsValid(args[p])
         /\ blank_Is(args[p].ch.Name)) =>
            /\ pc[p] = "done"
            /\ calls[p] = <<>>
            /\ result[p].data = <<>>
            /\ result[p].err # NoErr
            /\ result[p].err[1].msg = "cannot marshal SimpleCharacter"
            /\ RootCause(result[p].err[1]) = ErrMissingName

\* Create with a whitespace Name and other fields populated has returned
C2_Witness ==
    \E p \in Procs :
        /\ pc[p] = "done"
        /\ args[p].method = "Create" /\ args[p].campID > 0
        /\ args[p].ch.Name = <<" ">> /\ args[p].ch.Title # <<>>
        /\ result[p].err # NoErr

\* C3: an invocation makes at most one client call: exactly one when all
\* local validations pass, none when one fails, and still one after the
\* call answered with a transport error.
C3_AtMostOneCall ==
    \A p \in Procs :
        /\ Len(calls[p]) <= 1
        /\ pc[p] = "sent" => Len(calls[p]) = 1
        /\ pc[p] = "done" => (Len(calls[p]) = 1 <=> AllValid(args[p]))
        /\ (pc[p] = "done" /\ AllValid(args[p]) /\ result[p].err # NoErr) =>
               /\ Len(calls[p]) = 1
               /\ RootCause(result[p].err[1]) \in TransportErrs

\* an Update whose single PUT failed has returned
C3_Witness ==
    \E p \in Procs :
        /\ pc[p] = "done"
        /\ args[p].method = "Update"
        /\ result[p].err # NoErr
        /\ Len(calls[p]) = 1

\* C4: the client call of an invocation has the verb and the path of its
\* operation, with the caller's campaign ID before the caller's character ID.
C4_VerbAndPath ==
    \A p \in Procs :
        calls[p] # <<>> =>
            LET a == args[p]
                c == calls[p][1]
            IN  CASE a.method = "Index" ->
                       /\ c.verb = "GET"
                       /\ c.end \in {CollectionPath(a)}
                              \cup {CollectionPath(a) \o "?since=" \o Itoa(t) : t \in 1..MaxTime}
                  [] a.method = "Create" -> c.verb = "POST" /\ c.end = CollectionPath(a)
                  [] a.method = "Get" -> c.verb = "GET" /\ c.end = ResourcePath(a)
                  [] a.method = "Update" -> c.verb = "PUT" /\ c.end = ResourcePath(a)
                  [] a.method = "Delete" -> c.verb = "DELETE" /\ c.end = ResourcePath(a)

\* Get(1, 2) is blocked in GET /campaigns/1/characters/2
C4_Witness ==
    \E p \in Procs :
        /\ pc[p] = "sent"
        /\ args[p].method = "Get" /\ args[p].campID = 1 /\ args[p].charID = 2
        /\ calls[p][1].end = "/campaigns/1/characters/2"

\* C5: the endpoint Index passes to the client is the collection path alone
\* when the timestamp is nil, and the collection path followed by the sync
\* parameter encoding that timestamp when it is not.
C5_SyncParameter ==
    \A p \in Procs :
        (calls[p] # <<>> /\ args[p].method = "Index") =>
            LET a == args[p]
            IN  IF a.syncT = <<>>
                THEN calls[p][1].end = CollectionPath(a)
                ELSE calls[p][1].end = CollectionPath(a) \o "?since=" \o Itoa(a.syncT[1])

\* Index(1, &2) is blocked in its GET
C5_Witness ==
    \E p \in Procs :
        /\ pc[p] = "sent"
        /\ args[p].method = "Index" /\ args[p].campID = 1 /\ args[p].syncT = <<2>>
        /\ calls[p][1].end = "/campaigns/1/characters?since=2"

\* C6 as stated: every error Get, Update or Delete returns identifies the
\* campaign ID and the character ID of the call and wraps its cause.
C6_BothIDsInEveryError ==
    \A p \in Procs :
        (pc[p] = "done" /\ TakesChar(args[p].method) /\ result[p].err # NoErr) =>
            LET e == result[p].err[1]
            IN  /\ e.cause # <<>>
                /\ Identifies(e, "camp", args[p].campID)
                /\ Identifies(e, "char", args[p].charID)

\* C6, amended: every error Get, Update or Delete returns wraps its cause.
\* The error of a failed client call names the campaign ID, and with it the
\* character ID in Get and Delete, the payload Name but no character ID in
\* Update.  An ID-validation or marshal error names no ID value: its
\* message says which check failed.
C6_ErrorContext ==
    \A p \in Procs :
        (pc[p] = "done" /\ TakesChar(args[p].method) /\ result[p].err # NoErr) =>
            LET e == result[p].err[1]
                a == args[p]
            IN  /\ e.cause # <<>>
                /\ calls[p] # <<>> =>
                       /\ RootCause(e) \in TransportErrs
                       /\ e.camp = <<a.campID>>
                       /\ a.method \in {"Get", "Delete"} => e.char = <<a.charID>>
                       /\ a.method = "Update" => e.char = <<>> /\ e.name = <<a.ch.Name>>
                /\ calls[p] = <<>> =>
                       /\ RootCause(e) \in {ErrInvalidID, ErrMissingName}
                       /\ e.camp = <<>> /\ e.char = <<>>
                       /\ e.msg \in {"invalid Campaign ID", "invalid Character ID",
                                     "cannot marshal SimpleCharacter"}

\* an Update whose PUT failed has returned an error without the character ID
C6_Witness ==
    \E p \in Procs :
        /\ pc[p] = "done"
        /\ args[p].method = "Update"
        /\ calls[p] # <<>>
        /\ result[p].err # NoErr
        /\ result[p].err[1].char = <<>>
        /\ result[p].err[1].camp = <<args[p].campID>>

IsSet(f, v) ==
    IF f \in StringFields THEN Len(v) > 0
    ELSE IF f \in IntFields THEN v # 0
    ELSE IF f \in BoolFields THEN v
    ELSE Len(v.elems) > 0

\* C7: MarshalJSON fails exactly for the values whose Name is blank; the
\* object it writes otherwise has the key name, and the key of an optional
\* field exactly when that field is non-empty / non-zero.
C7_MarshalJSON ==
    jpc # "start" =>
        /\ enc.err # NoErr <=> blank_Is(sc.Name)
        /\ enc.err # NoErr => enc.b = <<>>
        /\ enc.err = NoErr =>
               /\ Len(enc.b) = 1
               /\ "name" \in DOMAIN enc.b[1]
               /\ \A f \in Fields \ {"Name"} :
                      JSONTag[f] \in DOMAIN enc.b[1] <=> IsSet(f, sc[f])

\* a value with one optional field set and an empty list has been encoded
C7_Witness ==
    /\ jpc = "encoded"
    /\ enc.err = NoErr
    /\ sc.Tags = Slice(<<>>) /\ sc.Title # <<>>
    /\ "tags" \notin DOMAIN enc.b[1]
    /\ "title" \in DOMAIN enc.b[1]

\* C8 as stated: decoding the encoding gives the same value in every field.
C8_RoundTripExact == jpc = "decoded" => dec = sc

ValidUTF8(s) == \A i \in 1..Len(s) : s[i] # "xFF"

\* C8, amended: decoding the encoding reproduces every number and flag,
\* every string that is valid UTF-8, and the elements of every list whose
\* strings are valid UTF-8; a list that was empty, nil or not, comes back nil.
C8_RoundTrip ==
    jpc = "decoded" =>
        \A f \in Fields :
            IF f \in StringFields THEN ValidUTF8(sc[f]) => dec[f] = sc[f]
            ELSE IF f \in IntFields \/ f \in BoolFields THEN dec[f] = sc[f]
            ELSE /\ Len(sc[f].elems) = 0 => dec[f] = NilSlice
                 /\ (/\ Len(sc[f].elems) > 0
                     /\ f \in StrSliceFields =>
                            \A i \in 1..Len(sc[f].elems) : ValidUTF8(sc[f].elems[i])) =>
                        dec[f] = sc[f]

\* a value with an empty non-nil list and a negative number has been decoded
C8_Witness ==
    /\ jpc = "decoded"
    /\ sc.Tags = Slice(<<>>) /\ dec.Tags = NilSlice
    /\ sc.FamilyID = -1 /\ dec.FamilyID = -1

\* C9: the base endpoint and the service's endpoint keep their values, and
\* under every interleaving a caller's request and result are made of its
\* own arguments and the answer to its own call.
C9_NoSharedState ==
    /\ EndpointCampaign = "/campaigns"
    /\ cs_end = "characters"
    /\ \A p \in Procs :
           LET a == args[p]
           IN  /\ calls[p] # <<>> =>
                      /\ calls[p][1].end \in
                             {CollectionPath(a), ResourcePath(a)}
                             \cup {CollectionPath(a) \o "?since=" \o Itoa(t) : t \in 1..MaxTime}
                      /\ calls[p][1].body \in {<<>>, <<EncodeStruct(a.ch)>>}
               /\ (pc[p] = "done" /\ result[p].err = NoErr) => result[p].data \in Datas
               /\ (pc[p] = "done" /\ result[p].err # NoErr) =>
                      LET e == result[p].err[1]
                      IN  /\ e.camp \in {<<>>, <<a.campID>>}
                          /\ e.char \in {<<>>, <<a.charID>>}
                          /\ e.name \in {<<>>, <<a.ch.Name>>}

\* two callers with different campaigns are blocked in the client together
C9_Witness ==
    \E p, q \in Procs :
        /\ p # q
        /\ pc[p] = "sent" /\ pc[q] = "sent"
        /\ args[p].method = "Create" /\ args[q].method = "Index"
        /\ args[p].campID # args[q].campID

\* C10: the error returned is that of the first failing check in the order
\* campaign ID, character ID, Name: a campaign ID <= 0 gives "invalid
\* Campaign ID" whatever else is wrong, and with a valid campaign ID a
\* character ID <= 0 gives "invalid Character ID" even when the Name is blank.
C10_ValidationOrder ==
    \A p \in Procs :
        pc[p] = "done" =>
            LET a == args[p]
            IN  /\ a.campID <= 0 =>
                       /\ result[p].err # NoErr
                       /\ result[p].err[1].msg = "invalid Campaign ID"
                /\ (a.campID > 0 /\ TakesChar(a.method) /\ a.charID <= 0) =>
                       /\ result[p].err # NoErr
                       /\ result[p].err[1].msg = "invalid Character ID"
                /\ (IDsValid(a) /\ TakesPayload(a.method) /\ blank_Is(a.ch.Name)) =>
                       /\ result[p].err # NoErr
                       /\ result[p].err[1].msg = "cannot marshal SimpleCharacter"

\* Update(1, 0, blank Name) has returned "invalid Character ID"
C10_Witness ==
    \E p \in Procs :
        /\ pc[p] = "done"
        /\ args[p].method = "Update" /\ args[p].campID = 1 /\ args[p].charID = 0
        /\ blank_Is(args[p].ch.Name)
        /\ result[p].err # NoErr
        /\ result[p].err[1].msg = "invalid Character ID"

====
